---- MODULE Spec2Model ----
(***************************************************************************)
(* Device session / connection lifecycle of acts.controllers.android_device *)
(* (AndroidDevice and the module-level create / destroy).                   *)
(*                                                                          *)
(* Every method is one operator  W -> W  on a "world" record, composed the  *)
(* way the Python composes its calls; an exception is the field exc of the  *)
(* result.  What the environment decides (the id the sl4a agent returns,    *)
(* whether a connect or a close throws, which free port the OS hands out)   *)
(* is an argument of the operator and is drawn with \E by the action.       *)
(* The adb / fastboot command runners are collaborators whose commands are  *)
(* taken to return normally.                                                *)
(***************************************************************************)
EXTENDS Integers, Sequences, FiniteSets, TLC

\* ------------------------------------------------------------------ bounds
MaxUid == 2       \* session ids the agent may hand out: 9 .. 9+MaxUid-1
MaxConns == 2     \* connections one handle opens over the life of the model
MaxFleetConns == 4  \* connections opened over the life of a fleet
MaxPort == 2      \* host ports 1..MaxPort
MaxRegistryConns == 4  \* connections of a handle that opens several sessions
MaxNdp == 2       \* max_ndp: the data paths, and so the iperf worker threads, of the throughput test
MaxListLen == 7   \* characters of a device listing

\* Serials are character-code sequences ("A" = <<65>>, "B" = <<66>>), so that
\* serial + str(uid) is a real concatenation.
SerialA == <<65>>
SerialB == <<66>>
Serials == {SerialA, SerialB}
NoSerial == <<>>

Uids == 9 .. (9 + MaxUid - 1)
Ports == 1 .. MaxPort
NONE == 0         \* Python None for h_port / a droid that was not returned

VARIABLES
    ads,       \* serial -> the AndroidDevice object for it (exists = constructed, not yet destroyed)
    conns,     \* every android.Android object ever created: <<[dev, uid, kind, st]>>
    fwd,       \* adb forward mappings in place: {<<serial, host port>>}
    root,      \* serials on which adbd runs as root
    log,       \* the calls made on collaborators by the last operation, in order
    op,        \* the last operation: [name, dev, arg, cfg, mode]
    exc,       \* the exception the last operation raised, "none" if it returned
    ret,       \* the droid (connection id) the last operation returned, NONE otherwise
    red,       \* the key of the EventDispatcher the last operation returned, <<>> otherwise
    fleet,     \* the list of serials whose handles the last successful create returned
    thr,       \* run_iperf_max_ndp_aware_only: the control thread, its workers and the queue q
    parsed     \* _parse_device_list: its last arguments and the list it returned

vars == <<ads, conns, fwd, root, log, op, exc, ret, red, fleet, thr, parsed>>

\* ------------------------------------------------------------------ helpers
Ev(name, dev, n) == [op |-> name, dev |-> dev, n |-> n, port |-> 0]

\* a call that names a host port: a connect (n the connection it made, 0 if it
\* failed), a forward, a probe of the port
EvConnect(name, dev, n, port) == [op |-> name, dev |-> dev, n |-> n, port |-> port]

Emit(w, e) == [w EXCEPT !.log = Append(@, e)]

Raise(w, name) == [w EXCEPT !.exc = name, !.ret = NONE, !.red = <<>>]

\* an except: clause that handles the exception
Caught(w) == [w EXCEPT !.exc = "none"]

Failed(w) == w.exc # "none"

Without(f, k) == [x \in DOMAIN f \ {k} |-> f[x]]

With(f, k, v) == [x \in DOMAIN f \cup {k} |-> IF x = k THEN v ELSE f[x]]

RECURSIVE Str(_)
\* str(n) for n >= 0, as the sequence of its decimal digit characters
Str(n) == IF n < 10 THEN <<48 + n>> ELSE Str(n \div 10) \o <<48 + (n % 10)>>

\* ed_key = self.serial + str(droid.uid)
EdKey(serial, uid) == serial \o Str(uid)

\* the object right after __init__ set its fields
FreshHandle == [exists |-> TRUE, born |-> TRUE, h_port |-> NONE, sessions |-> <<>>, eds |-> <<>>]

\* no AndroidDevice object for the serial yet
NoHandle == [exists |-> FALSE, born |-> FALSE, h_port |-> NONE, sessions |-> <<>>, eds |-> <<>>]

\* the object is gone
DeadHandle == [exists |-> FALSE, born |-> TRUE, h_port |-> NONE, sessions |-> <<>>, eds |-> <<>>]

\* a connection that was closed for good
Closed == [dev |-> NoSerial, uid |-> 0, kind |-> "closed", st |-> "closed"]

\* The world an operation starts in.  What the host and the devices look like
\* from outside the program is an input of the operation: mode[s] is how serial s
\* is attached ("device", "fastboot", "absent"), busy the host ports other local
\* processes are bound to.
World(mode, busy) ==
         [ads |-> ads, conns |-> conns, fwd |-> fwd, busy |-> busy, mode |-> mode,
          root |-> root, log |-> <<>>, exc |-> "none", ret |-> NONE, red |-> <<>>,
          lst |-> <<>>, ok |-> TRUE, idu |-> "number"]

\* ------------------------------------------------------------------ collaborators
\* adb.is_port_available(port): no local process is bound to the port
IsPortAvailable(w, port) == port \notin w.busy

\* the call of is_port_available(port) and its answer (n = 1 available, 0 not)
ProbePort(w, d, port) ==
    Emit(w, EvConnect("is_port_available", d, IF IsPortAvailable(w, port) THEN 1 ELSE 0, port))

\* adb.get_available_host_port(): the ports the OS may hand out to handle d
AvailableHostPorts(w, d) ==
    {p \in Ports : IsPortAvailable(w, p)
                   /\ \A e \in Serials \ {d} : ~(w.ads[e].exists /\ w.ads[e].h_port = p)}

\* the port get_available_host_port() returns: p, which must be one the OS may
\* hand out (ok records that the choice p was a possible one)
GetAvailableHostPort(w, d, p) ==
    [w EXCEPT !.ads[d].h_port = p, !.ok = @ /\ p \in AvailableHostPorts(w, d)]

\* adb.tcp_forward(host_port, device_port)
TcpForward(w, d, hp) ==
    Emit([w EXCEPT !.fwd = @ \cup {<<d, hp>>}], EvConnect("tcp_forward", d, 0, hp))

\* adb.forward("--remove tcp:%d" % port)
ForwardRemove(w, d, hp) ==
    Emit([w EXCEPT !.fwd = @ \ {<<d, hp>>}], EvConnect("forward_remove", d, 0, hp))

\* the removal of the forward in terminate_all_sessions without self.h_port = None
ReleasePort_KeepField(w, d, f) ==
    IF d \in f.rm
    THEN Raise(Emit(w, EvConnect("forward_remove_failed", d, 0, w.ads[d].h_port)), "AdbError")
    ELSE ForwardRemove(w, d, w.ads[d].h_port)

\* adb.forward("--remove tcp:%d" % port) in terminate_all_sessions, followed by
\* self.h_port = None; the command throws on the devices of f.rm
ReleasePort(w, d, f) ==
    IF d \in f.rm
    THEN Raise(Emit(w, EvConnect("forward_remove_failed", d, 0, w.ads[d].h_port)), "AdbError")
    ELSE [ForwardRemove(w, d, w.ads[d].h_port) EXCEPT !.ads[d].h_port = NONE]

\* adb.start_sl4a()
StartSl4a(w, d) == Emit(w, Ev("start_sl4a", d, 0))

\* android.Android(port=...): r = 0 the connect fails, otherwise the agent opens
\* a session and answers with uid r
AndroidNew(w, d, r) ==
    IF r = 0
    THEN Raise(Emit(w, EvConnect("Android", d, 0, w.ads[d].h_port)), "ConnectError")
    ELSE LET c == Len(w.conns) + 1
             w1 == [w EXCEPT !.conns = Append(@, [dev |-> d, uid |-> r, kind |-> "new", st |-> "open"])]
         IN [Emit(w1, EvConnect("Android", d, c, w.ads[d].h_port)) EXCEPT !.ret = c, !.exc = "none"]

\* android.Android(cmd='continue', uid=..., port=...)
AndroidContinue(w, d, uid, ok) ==
    IF ~ok
    THEN Raise(Emit(w, EvConnect("AndroidContinue", d, 0, w.ads[d].h_port)), "ConnectError")
    ELSE LET c == Len(w.conns) + 1
             w1 == [w EXCEPT !.conns = Append(@, [dev |-> d, uid |-> uid, kind |-> "continue", st |-> "open"])]
         IN [Emit(w1, EvConnect("AndroidContinue", d, c, w.ads[d].h_port)) EXCEPT !.ret = c, !.exc = "none"]

\* droid.closeSl4aSession(): the remote close-session signal
CloseSl4aSession(w, d, c, f) ==
    IF c \in f.sig
    THEN Raise(Emit(w, Ev("closeSl4aSession_failed", d, c)), "CloseError")
    ELSE Emit([w EXCEPT !.conns[c].st = IF @ = "open" THEN "signalled" ELSE @],
              Ev("closeSl4aSession", d, c))

\* droid.close(): the local close
Close(w, d, c, f) ==
    IF c \in f.loc
    THEN Raise(Emit(w, Ev("close_failed", d, c)), "CloseError")
    ELSE Emit([w EXCEPT !.conns[c] = Closed], Ev("close", d, c))

\* EventDispatcher.clean_up() of the dispatcher of session uid: the listener is
\* stopped and the connection the dispatcher holds is released
CleanUp(w, d, uid, f) ==
    IF uid \in f.ed
    THEN Raise(Emit(w, Ev("clean_up_failed", d, uid)), "CleanUpError")
    ELSE Emit([w EXCEPT !.conns[w.ads[d].eds[EdKey(d, uid)].droid] = Closed],
              Ev("clean_up", d, uid))

\* EventDispatcher.start()
EdStart(w, d, ed_key, ok) ==
    IF ~ok
    THEN Raise(Emit(w, Ev("ed_start_failed", d, w.ads[d].eds[ed_key].droid)), "StartError")
    ELSE Emit([w EXCEPT !.ads[d].eds[ed_key].started = TRUE],
              Ev("ed_start", d, w.ads[d].eds[ed_key].droid))

\* what "id -u" prints on the device.  An id that knows -u prints the numeric
\* user id, 0 for root and 2000 for the shell user (w.idu = "number"); an id
\* that ignores its options prints uid=0(root) or uid=2000(shell) (w.idu = "names")
ShellIdU(w, d) ==
    IF w.idu = "number"
    THEN IF d \in w.root THEN Str(0) ELSE Str(2000)
    ELSE IF d \in w.root
         THEN <<117, 105, 100, 61>> \o Str(0) \o <<40, 114, 111, 111, 116, 41>>
         ELSE <<117, 105, 100, 61>> \o Str(2000) \o <<40, 115, 104, 101, 108, 108, 41>>

\* Python's  sub in s  on strings
Contains(sub, s) ==
    \E i \in 1 .. (Len(s) - Len(sub) + 1) : SubSeq(s, i, i + Len(sub) - 1) = sub

\* list_adb_devices(): the serials adb reports in state "device"
ListAdbDevices(w) == {s \in Serials : w.mode[s] = "device"}

\* list_fastboot_devices()
ListFastbootDevices(w) == {s \in Serials : w.mode[s] = "fastboot"}

\* ------------------------------------------------------------------ AndroidDevice
\* is_bootloader
IsBootloader(w, d) == d \in ListFastbootDevices(w)

\* is_adb_root: "root" in self.adb.shell("id -u")
IsAdbRoot(w, d) == Contains(<<114, 111, 111, 116>>, ShellIdU(w, d))

\* root_adb()
RootAdb(w, d) ==
    LET w0 == Emit(w, Ev("shell_id_u", d, 0))
    IN  IF ~IsAdbRoot(w, d)
        THEN Emit(Emit(Emit(Emit([w0 EXCEPT !.root = @ \cup {d}],
                 Ev("root", d, 0)), Ev("wait_for_device", d, 0)),
                 Ev("remount", d, 0)), Ev("wait_for_device", d, 0))
        ELSE w0

\* __init__(serial)
Construct(w, d) ==
    LET w1 == Emit([w EXCEPT !.ads[d] = FreshHandle], Ev("fastboot_devices", d, 0))
    IN  IF ~IsBootloader(w1, d) THEN RootAdb(w1, d) ELSE w1

\* start_new_session() without the check for an existing uid
StartNewSession_NoDupCheck(w, d, r) ==
    LET w1 == AndroidNew(w, d, r)
        droid == w1.ret
    IN  IF Failed(w1) THEN w1
        ELSE [w1 EXCEPT !.ads[d].sessions = With(@, w1.conns[droid].uid, <<droid>>)]

\* start_new_session(): r is what android.Android(port=self.h_port) does
StartNewSession(w, d, r) ==
    LET w1 == AndroidNew(w, d, r)
        droid == w1.ret
    IN  IF Failed(w1) THEN w1
        ELSE IF w1.conns[droid].uid \in DOMAIN w1.ads[d].sessions
        THEN Raise(Emit(w1, Ev("raise_SL4AException", d, droid)), "SL4AException")
        ELSE [w1 EXCEPT !.ads[d].sessions = With(@, w1.conns[droid].uid, <<droid>>)]

\* add_new_connection_to_session(session_id) without the check for the session
AddNewConnectionToSession_NoCheck(w, d, session_id, ok) ==
    AndroidContinue(w, d, session_id, ok)

\* add_new_connection_to_session(session_id)
AddNewConnectionToSession(w, d, session_id, ok) ==
    IF session_id \notin DOMAIN w.ads[d].sessions
    THEN Raise(w, "DoesNotExistError")
    ELSE AndroidContinue(w, d, session_id, ok)

\* get_dispatcher(droid) without the lookup of an existing dispatcher
GetDispatcher_AlwaysCreate(w, d, droid, ok) ==
    LET uid == w.conns[droid].uid
        ed_key == EdKey(d, uid)
        w1 == AddNewConnectionToSession(w, d, uid, ok)
    IN  IF Failed(w1) THEN w1
        ELSE [w1 EXCEPT !.ads[d].eds = With(@, ed_key, [droid |-> w1.ret, started |-> FALSE]),
                        !.red = ed_key, !.ret = droid]

\* get_dispatcher(droid)
GetDispatcher(w, d, droid, ok) ==
    LET uid == w.conns[droid].uid
        ed_key == EdKey(d, uid)
    IN  IF ed_key \in DOMAIN w.ads[d].eds
        THEN [w EXCEPT !.red = ed_key, !.ret = droid]
        ELSE LET w1 == AddNewConnectionToSession(w, d, uid, ok)
             IN  IF Failed(w1) THEN w1
                 ELSE [w1 EXCEPT !.ads[d].eds = With(@, ed_key, [droid |-> w1.ret, started |-> FALSE]),
                                 !.red = ed_key, !.ret = droid]

\* get_droid() that starts the agent and tries again after the second failure too
GetDroid_RetryAgain(w, d, handle_event, o) ==
    LET hp == w.ads[d].h_port
        w0 == IF hp = NONE THEN w ELSE ProbePort(w, d, hp)
        w1 == IF hp = NONE \/ ~IsPortAvailable(w, hp)
              THEN GetAvailableHostPort(w0, d, o.p)
              ELSE [w0 EXCEPT !.ok = @ /\ o.p = NONE]
        w2 == TcpForward(w1, d, w1.ads[d].h_port)
        w3 == StartNewSession(w2, d, o.r1)
        w4 == IF Failed(w3)
              THEN StartNewSession(StartSl4a(Caught(w3), d), d, o.r2)
              ELSE [w3 EXCEPT !.ok = @ /\ o.r2 = 0]
        w5 == IF Failed(w4)
              THEN StartNewSession(StartSl4a(Caught(w4), d), d, o.r2)
              ELSE w4
    IN  IF Failed(w5) THEN w5
        ELSE IF handle_event THEN GetDispatcher(w5, d, w5.ret, o.join)
        ELSE [w5 EXCEPT !.ok = @ /\ o.join]

\* get_droid() that falls back on a fixed host port instead of asking the allocator
GetDroid_FixedPort(w, d, handle_event, o) ==
    LET hp == w.ads[d].h_port
        w0 == IF hp = NONE THEN w ELSE ProbePort(w, d, hp)
        w1 == IF hp = NONE \/ ~IsPortAvailable(w, hp)
              THEN [w0 EXCEPT !.ads[d].h_port = 1]
              ELSE [w0 EXCEPT !.ok = @ /\ o.p = NONE]
        w2 == TcpForward(w1, d, w1.ads[d].h_port)
        w3 == StartNewSession(w2, d, o.r1)
        w4 == IF Failed(w3)
              THEN StartNewSession(StartSl4a(Caught(w3), d), d, o.r2)
              ELSE [w3 EXCEPT !.ok = @ /\ o.r2 = 0]
    IN  IF Failed(w4) THEN w4
        ELSE IF handle_event THEN GetDispatcher(w4, d, w4.ret, o.join)
        ELSE [w4 EXCEPT !.ok = @ /\ o.join]

\* get_droid() that keeps a recorded host port without asking whether it is
\* still available
GetDroid_KeepPort(w, d, handle_event, o) ==
    LET hp == w.ads[d].h_port
        w1 == IF hp = NONE
              THEN GetAvailableHostPort(w, d, o.p)
              ELSE w
        w2 == TcpForward(w1, d, w1.ads[d].h_port)
        w3 == StartNewSession(w2, d, o.r1)
        w4 == IF Failed(w3)
              THEN StartNewSession(StartSl4a(Caught(w3), d), d, o.r2)
              ELSE [w3 EXCEPT !.ok = @ /\ o.r2 = 0]
    IN  IF Failed(w4) THEN w4
        ELSE IF handle_event THEN GetDispatcher(w4, d, w4.ret, o.join)
        ELSE [w4 EXCEPT !.ok = @ /\ o.join]

\* get_droid(handle_event): o.p the port the allocator returns (NONE when it is
\* not asked), o.r1 / o.r2 the first and the second session-creation attempt,
\* o.join the event connection
GetDroid(w, d, handle_event, o) ==
    LET hp == w.ads[d].h_port
        w0 == IF hp = NONE THEN w ELSE ProbePort(w, d, hp)
        w1 == IF hp = NONE \/ ~IsPortAvailable(w, hp)
              THEN GetAvailableHostPort(w0, d, o.p)
              ELSE [w0 EXCEPT !.ok = @ /\ o.p = NONE]
        w2 == TcpForward(w1, d, w1.ads[d].h_port)
        w3 == StartNewSession(w2, d, o.r1)
        w4 == IF Failed(w3)
              THEN StartNewSession(StartSl4a(Caught(w3), d), d, o.r2)
              ELSE [w3 EXCEPT !.ok = @ /\ o.r2 = 0]
    IN  IF Failed(w4) THEN w4
        ELSE IF handle_event THEN GetDispatcher(w4, d, w4.ret, o.join)
        ELSE [w4 EXCEPT !.ok = @ /\ o.join]

RECURSIVE CloseDroids(_, _, _, _)
\* for droid in self._droid_sessions[session_id]: closeSl4aSession(); close()
CloseDroids(w, d, droids, f) ==
    IF droids = <<>> THEN w
    ELSE LET w1 == CloseSl4aSession(w, d, Head(droids), f)
             w2 == Close(w1, d, Head(droids), f)
         IN  IF Failed(w1) THEN w1
             ELSE IF Failed(w2) THEN w2
             ELSE CloseDroids(w2, d, Tail(droids), f)

\* terminate_session(session_id) that closes the connections and leaves the entry
\* of the session in self._droid_sessions
TerminateSession_KeepEntry(w, d, session_id, f) ==
    LET h == w.ads[d]
        active == DOMAIN h.sessions # {} /\ session_id \in DOMAIN h.sessions
        w1 == IF active THEN CloseDroids(w, d, h.sessions[session_id], f) ELSE w
        ed_key == EdKey(d, session_id)
        w3 == CleanUp(w1, d, session_id, f)
    IN  IF Failed(w1) THEN w1
        ELSE IF ed_key \in DOMAIN w1.ads[d].eds
        THEN IF Failed(w3) THEN w3
             ELSE Emit([w3 EXCEPT !.ads[d].eds = Without(@, ed_key)], Ev("del_ed", d, session_id))
        ELSE w1

\* terminate_session(session_id) that empties the session map where the method
\* deletes one entry
TerminateSession_ClearMap(w, d, session_id, f) ==
    LET h == w.ads[d]
        active == DOMAIN h.sessions # {} /\ session_id \in DOMAIN h.sessions
        w1 == IF active THEN CloseDroids(w, d, h.sessions[session_id], f) ELSE w
        w2 == IF active /\ ~Failed(w1)
              THEN Emit([w1 EXCEPT !.ads[d].sessions = <<>>],
                        Ev("del_session", d, session_id))
              ELSE w1
        ed_key == EdKey(d, session_id)
        w3 == CleanUp(w2, d, session_id, f)
    IN  IF Failed(w2) THEN w2
        ELSE IF ed_key \in DOMAIN w2.ads[d].eds
        THEN IF Failed(w3) THEN w3
             ELSE Emit([w3 EXCEPT !.ads[d].eds = Without(@, ed_key)], Ev("del_ed", d, session_id))
        ELSE w2

\* terminate_session(session_id) that looks the session up without the test of
\* line 477: self._droid_sessions[session_id] raises KeyError for a missing id
TerminateSession_Unguarded(w, d, session_id, f) ==
    LET h == w.ads[d]
        w1 == CloseDroids(w, d, h.sessions[session_id], f)
        w2 == IF ~Failed(w1)
              THEN Emit([w1 EXCEPT !.ads[d].sessions = Without(@, session_id)],
                        Ev("del_session", d, session_id))
              ELSE w1
        ed_key == EdKey(d, session_id)
        w3 == CleanUp(w2, d, session_id, f)
    IN  IF session_id \notin DOMAIN h.sessions THEN Raise(w, "KeyError")
        ELSE IF Failed(w2) THEN w2
        ELSE IF ed_key \in DOMAIN w2.ads[d].eds
        THEN IF Failed(w3) THEN w3
             ELSE Emit([w3 EXCEPT !.ads[d].eds = Without(@, ed_key)], Ev("del_ed", d, session_id))
        ELSE w2

\* terminate_session(session_id)
TerminateSession(w, d, session_id, f) ==
    LET h == w.ads[d]
        active == DOMAIN h.sessions # {} /\ session_id \in DOMAIN h.sessions
        w1 == IF active THEN CloseDroids(w, d, h.sessions[session_id], f) ELSE w
        w2 == IF active /\ ~Failed(w1)
              THEN Emit([w1 EXCEPT !.ads[d].sessions = Without(@, session_id)],
                        Ev("del_session", d, session_id))
              ELSE w1
        ed_key == EdKey(d, session_id)
        w3 == CleanUp(w2, d, session_id, f)
    IN  IF Failed(w2) THEN w2
        ELSE IF ed_key \in DOMAIN w2.ads[d].eds
        THEN IF Failed(w3) THEN w3
             ELSE Emit([w3 EXCEPT !.ads[d].eds = Without(@, ed_key)], Ev("del_ed", d, session_id))
        ELSE w2

RECURSIVE SortedIds(_)
\* sorted(keys) for integer keys
SortedIds(S) ==
    IF S = {} THEN <<>>
    ELSE LET m == CHOOSE x \in S : \A y \in S : x <= y
         IN  <<m>> \o SortedIds(S \ {m})

RECURSIVE SessionIds(_)
\* list(self._droid_sessions.keys()): the ids in the order they were inserted,
\* which is the order of the connections that created the sessions
SessionIds(sessions) ==
    IF DOMAIN sessions = {} THEN <<>>
    ELSE LET m == CHOOSE x \in DOMAIN sessions :
                      \A y \in DOMAIN sessions : sessions[x][1] <= sessions[y][1]
         IN  <<m>> \o SessionIds(Without(sessions, m))

RECURSIVE TerminateEach_StopAtFailure(_, _, _, _)
\* the loop over the session ids without the try / except around terminate_session
TerminateEach_StopAtFailure(w, d, session_ids, f) ==
    IF session_ids = <<>> THEN w
    ELSE LET w1 == TerminateSession(w, d, Head(session_ids), f)
         IN  IF Failed(w1) THEN w1
             ELSE TerminateEach_StopAtFailure(w1, d, Tail(session_ids), f)

RECURSIVE TerminateEach(_, _, _, _)
\* for session_id in session_ids: try: terminate_session except: log
TerminateEach(w, d, session_ids, f) ==
    IF session_ids = <<>> THEN w
    ELSE LET w1 == TerminateSession(w, d, Head(session_ids), f)
             w2 == IF Failed(w1)
                   THEN Emit(Caught(w1), Ev("log_exception", d, Head(session_ids)))
                   ELSE w1
         IN  TerminateEach(w2, d, Tail(session_ids), f)

\* terminate_all_sessions()
TerminateAllSessions(w, d, f) ==
    IF DOMAIN w.ads[d].sessions # {}
    THEN LET w1 == TerminateEach(w, d, SessionIds(w.ads[d].sessions), f)
         IN  IF w1.ads[d].h_port # NONE THEN ReleasePort(w1, d, f) ELSE w1
    ELSE w

\* __del__()
Del(w, d) ==
    LET w1 == IF w.ads[d].h_port # NONE THEN ForwardRemove(w, d, w.ads[d].h_port) ELSE w
    IN  [w1 EXCEPT !.ads[d] = DeadHandle]

\* the seconds wait_for_boot_completion() allows: 60*15
BootCeiling == 900

\* the seconds between two polls of sys.boot_completed
PollInterval == 5

\* the seconds reboot() sleeps after adb reboot
SettleDelay == 5

\* time.sleep(secs)
Sleep(w, d, secs) == Emit(w, Ev("sleep", d, secs))

\* adb.reboot(): the device restarts and adbd comes back unprivileged
AdbReboot(w, d) == Emit([w EXCEPT !.root = @ \ {d}], Ev("reboot", d, 0))

\* fastboot.reboot()
FastbootReboot(w, d) == Emit(w, Ev("fastboot_reboot", d, 0))

\* completed == '1' at the k-th adb.shell("getprop sys.boot_completed"): the
\* property reads 1 from the boot-th poll on, never when boot = 0
Completed(boot, k) == boot # 0 /\ k >= boot

\* the k-th getprop and what it answered (n = 1 for '1')
GetProp(w, d, boot, k) == Emit(w, Ev("getprop", d, IF Completed(boot, k) THEN 1 ELSE 0))

\* return True / return False of wait_for_boot_completion()
WaitReturns(w, d, value) == Emit(w, Ev("wait_returned", d, IF value THEN 1 ELSE 0))

RECURSIVE WaitForBootCompletion_ClockFirst(_, _, _, _, _, _)
\* wait_for_boot_completion() that looks at the clock before it looks at the sample
WaitForBootCompletion_ClockFirst(w, d, boot, secs, k, t) ==
    IF t + secs > BootCeiling THEN WaitReturns(GetProp(w, d, boot, k), d, FALSE)
    ELSE IF Completed(boot, k) THEN WaitReturns(GetProp(w, d, boot, k), d, TRUE)
    ELSE WaitForBootCompletion_ClockFirst(Sleep(GetProp(w, d, boot, k), d, PollInterval),
                                          d, boot, secs, k + 1, t + secs + PollInterval)

RECURSIVE WaitForBootCompletion(_, _, _, _, _, _)
\* wait_for_boot_completion(): the k-th turn of the loop, entered t seconds after
\* timeout was set, with adb shell taking secs seconds
WaitForBootCompletion(w, d, boot, secs, k, t) ==
    IF Completed(boot, k) THEN WaitReturns(GetProp(w, d, boot, k), d, TRUE)
    ELSE IF t + secs > BootCeiling THEN WaitReturns(GetProp(w, d, boot, k), d, FALSE)
    ELSE WaitForBootCompletion(Sleep(GetProp(w, d, boot, k), d, PollInterval),
                               d, boot, secs, k + 1, t + secs + PollInterval)

\* what wait_for_boot_completion() returned in world w
BootSeen(w) == w.log[Len(w.log)] = Ev("wait_returned", w.log[Len(w.log)].dev, 1)

\* ed.start() on the dispatcher get_droid() returned, unless get_droid() raised
StartReturnedEd(w, d, o) ==
    IF Failed(w) THEN [w EXCEPT !.ok = @ /\ o.start] ELSE EdStart(w, d, w.red, o.start)

\* reboot() from the return of wait_for_boot_completion() on
AfterBoot(w, d, o) ==
    IF ~BootSeen(w)
    THEN Raise(w, "AndroidDeviceError")
    ELSE StartReturnedEd(GetDroid(RootAdb(w, d), d, TRUE, o), d, o)

\* reboot() from adb.reboot() on, after terminate_all_sessions() ended in world w
RebootDevice(w, d, boot, secs, o) ==
    IF Failed(w) THEN w
    ELSE AfterBoot(WaitForBootCompletion(Sleep(AdbReboot(w, d), d, SettleDelay),
                                         d, boot, secs, 1, 0), d, o)

\* reboot() that does not look at the mode the device is in
Reboot_IgnoreMode(w, d, f, boot, secs, o) ==
    RebootDevice(TerminateAllSessions(Emit(w, Ev("fastboot_devices", d, 0)), d, f),
                 d, boot, secs, o)

\* reboot(): boot and secs say how the device comes back, o what the
\* environment does during the get_droid() and ed.start() that follow
Reboot(w, d, f, boot, secs, o) ==
    IF IsBootloader(w, d)
    THEN FastbootReboot(Emit(w, Ev("fastboot_devices", d, 0)), d)
    ELSE RebootDevice(TerminateAllSessions(Emit(w, Ev("fastboot_devices", d, 0)), d, f),
                      d, boot, secs, o)

RECURSIVE StrLess(_, _)
\* Python's < on strings
StrLess(a, b) ==
    IF a = <<>> THEN b # <<>>
    ELSE IF b = <<>> THEN FALSE
    ELSE IF Head(a) # Head(b) THEN Head(a) < Head(b)
    ELSE StrLess(Tail(a), Tail(b))

\* sorted(keys)[0] for string keys
FirstKey(S) == CHOOSE k \in S : \A j \in S : j = k \/ StrLess(k, j)

\* the ed property: the key of the first dispatcher, <<>> for None
Ed(w, d) == IF DOMAIN w.ads[d].eds = {} THEN <<>> ELSE FirstKey(DOMAIN w.ads[d].eds)

\* the droid property: the first connection of the smallest session id, NONE for None
Droid(w, d) ==
    IF DOMAIN w.ads[d].sessions = {} THEN NONE
    ELSE w.ads[d].sessions[Head(SortedIds(DOMAIN w.ads[d].sessions))][1]

RECURSIVE SortedKeys(_)
\* sorted(keys) for string keys
SortedKeys(S) ==
    IF S = {} THEN <<>>
    ELSE <<FirstKey(S)>> \o SortedKeys(S \ {FirstKey(S)})

RECURSIVE FirstOfEach(_, _)
\* for k in keys: results.append(self._droid_sessions[k][0])
FirstOfEach(sessions, keys) ==
    IF keys = <<>> THEN <<>>
    ELSE <<sessions[Head(keys)][1]>> \o FirstOfEach(sessions, Tail(keys))

\* the droids property: one connection per session, by sorted session id
Droids(w, d) == FirstOfEach(w.ads[d].sessions, SortedIds(DOMAIN w.ads[d].sessions))

\* the eds property: the dispatchers (named by their keys) by sorted key
Eds(w, d) == SortedKeys(DOMAIN w.ads[d].eds)

\* ------------------------------------------------------------------ module level
RECURSIVE GetInstances(_, _)
\* get_instances(serials)
GetInstances(w, serials) ==
    IF serials = <<>> THEN w
    ELSE LET w1 == Construct(w, Head(serials))
         IN  GetInstances([w1 EXCEPT !.lst = Append(@, Head(serials))], Tail(serials))

RECURSIVE GetInstancesWithConfigs(_, _)
\* get_instances_with_configs(configs): a config is [serial, clash], serial = <<>>
\* when the key "serial" is missing, clash when a key names an existing attribute
GetInstancesWithConfigs(w, configs) ==
    IF configs = <<>> THEN w
    ELSE LET c == Head(configs)
             w1 == Construct(w, c.serial)
         IN  IF c.serial = NoSerial THEN Raise(w, "ControllerError")
             ELSE IF c.clash THEN Raise(w1, "ControllerError")
             ELSE GetInstancesWithConfigs([w1 EXCEPT !.lst = Append(@, c.serial)], Tail(configs))

\* the serials adb lists, in the order it lists them
AdbDeviceList(w) ==
    (IF SerialA \in ListAdbDevices(w) THEN <<SerialA>> ELSE <<>>)
    \o (IF SerialB \in ListAdbDevices(w) THEN <<SerialB>> ELSE <<>>)

\* get_all_instances()
GetAllInstances(w) == GetInstances(Emit(w, Ev("adb_devices", NoSerial, 0)), AdbDeviceList(w))

\* ad.ed.start(): the ed property is None when the handle has no dispatcher
StartEd(w, d, ok) ==
    IF Ed(w, d) = <<>> THEN Raise(w, "AttributeError")
    ELSE EdStart(w, d, Ed(w, d), ok)

\* the step after get_droid() in create without ad.ed.start()
AfterGetDroid_NoStart(w, d, o) == [w EXCEPT !.ok = @ /\ o.start]

\* ad.ed.start() after ad.get_droid() left world w: not reached when get_droid raised
AfterGetDroid(w, d, o) ==
    IF Failed(w) THEN [w EXCEPT !.ok = @ /\ o.start]
    ELSE StartEd(w, d, o.start)

\* the try body of create without the except clause
Wrap_Unwrapped(w, d) == w

\* except: logger.exception(msg); raise ControllerError(msg)
Wrap(w, d) ==
    IF Failed(w) THEN Raise(Emit(w, Ev("log_exception", d, 0)), "ControllerError")
    ELSE w

RECURSIVE BringUp(_, _, _, _)
RECURSIVE BringUpRest(_, _, _, _)
\* the loop of create: for ad in ads; o[serial] is what the environment does
\* to that handle's get_droid() and ed.start()
BringUp(w, lst, connected_ads, o) ==
    IF lst = <<>> THEN w
    ELSE IF Head(lst) \notin connected_ads THEN Raise(w, "DoesNotExistError")
    ELSE BringUpRest(Wrap(AfterGetDroid(GetDroid(w, Head(lst), TRUE, o[Head(lst)]),
                                        Head(lst), o[Head(lst)]),
                          Head(lst)),
                     Tail(lst), connected_ads, o)

\* the next iteration of the loop, unless the body raised
BringUpRest(w, rest, connected_ads, o) ==
    IF Failed(w) THEN w ELSE BringUp(w, rest, connected_ads, o)

\* the serials of a list of configs
RECURSIVE SerialsOf(_)
SerialsOf(items) ==
    IF items = <<>> THEN <<>> ELSE <<Head(items).serial>> \o SerialsOf(Tail(items))

\* create(configs, logger)
Create(w, cfg, o) ==
    IF cfg.kind = "none" THEN w
    ELSE LET w1 == IF cfg.kind = "all" THEN GetAllInstances(w)
                   ELSE IF cfg.kind = "serials" THEN GetInstances(w, SerialsOf(cfg.items))
                   ELSE GetInstancesWithConfigs(w, cfg.items)
             w2 == Emit(w1, Ev("adb_devices", NoSerial, 0))
         IN  IF Failed(w1) THEN w1
             ELSE BringUp(w2, w2.lst, ListAdbDevices(w2), o)

\* ad.terminate_all_sessions() as destroy calls it
TearDownOne(w, d, f) == TerminateAllSessions(Emit(w, Ev("terminate_all_sessions", d, 0)), d, f)

RECURSIVE Destroy_NoCatch(_, _, _)
\* destroy(ads) without the try / except around terminate_all_sessions
Destroy_NoCatch(w, lst, f) ==
    IF lst = <<>> \/ Failed(w) THEN w
    ELSE Destroy_NoCatch(TearDownOne(w, Head(lst), f), Tail(lst), f)

RECURSIVE Destroy(_, _, _)
\* destroy(ads)
Destroy(w, lst, f) ==
    IF lst = <<>> THEN w
    ELSE Destroy(Caught(TearDownOne(w, Head(lst), f)), Tail(lst), f)

\* ------------------------------------------------------------------ what the environment may do
Outcomes == {0} \cup Uids

Modes == [Serials -> {"device", "fastboot", "absent"}]

\* every device attached and ready, no port taken: the environment of an operation
\* that reads neither
AllReady == [s \in Serials |-> "device"]

\* what the environment does during one get_droid() and the ed.start() after it
ORecs == [p : {NONE} \cup Ports, r1 : Outcomes, r2 : Outcomes, join : BOOLEAN, start : BOOLEAN]

DefaultO == [p |-> NONE, r1 |-> 0, r2 |-> 0, join |-> TRUE, start |-> TRUE]

\* the scripts that can differ in effect on a handle whose registry is S: a second
\* attempt only after a first that cannot succeed, a join only after a session
Scripts(S) ==
    {o \in ORecs : /\ (o.r1 # 0 /\ o.r1 \notin S) => o.r2 = 0
                   /\ (o.r1 = 0 \/ o.r1 \in S) /\ (o.r2 = 0 \/ o.r2 \in S) => o.join /\ o.start
                   /\ ~o.join => o.start}

\* the connections terminate_session(uid) will try to close
SessionConns(d, uid) ==
    IF uid \in DOMAIN ads[d].sessions
    THEN {ads[d].sessions[uid][i] : i \in 1 .. Len(ads[d].sessions[uid])}
    ELSE {}

\* which closes and clean-ups throw, among those of the sessions U of handle d
Failures(d, U) ==
    LET C == UNION {SessionConns(d, u) : u \in U}
        E == {u \in U : EdKey(d, u) \in DOMAIN ads[d].eds}
    IN  UNION {[sig : {sg}, loc : SUBSET (C \ sg), ed : SUBSET E, rm : {{}}] : sg \in SUBSET C}

Items == [serial : Serials \cup {NoSerial}, clash : BOOLEAN]

Distinct(items) ==
    \A i, j \in 1 .. Len(items) :
        i # j /\ items[i].serial # NoSerial => items[i].serial # items[j].serial

ItemLists == {l \in UNION {[1 .. n -> Items] : n \in 1 .. 2} : Distinct(l)}

\* the configs create is given: None, [], a list of serials, a list of dicts
Configs ==
    {[kind |-> "none", items |-> <<>>], [kind |-> "all", items |-> <<>>]}
    \cup {[kind |-> "serials", items |-> l] :
              l \in {x \in ItemLists : \A i \in 1 .. Len(x) : x[i].serial # NoSerial /\ ~x[i].clash}}
    \cup {[kind |-> "dicts", items |-> l] : l \in ItemLists}

NoCfg == [kind |-> "none", items |-> <<>>]

OpRec(name, dev, arg) ==
    [name |-> name, dev |-> dev, arg |-> arg, cfg |-> NoCfg, mode |-> AllReady]

\* the devices whose get_droid() the operation reached, from its log
Reached(w) == {w.log[i].dev : i \in {j \in 1 .. Len(w.log) : w.log[j].op = "tcp_forward"}}

\* the state after an operation that ended in world w
Commit(w, o) ==
    /\ w.ok
    /\ ads' = w.ads
    /\ conns' = w.conns
    /\ fwd' = w.fwd
    /\ root' = w.root
    /\ log' = w.log
    /\ exc' = w.exc
    /\ ret' = w.ret
    /\ red' = w.red
    /\ op' = o
    /\ UNCHANGED <<thr, parsed>>

\* the control thread is between two calls
Idle == op.name = "idle"

\* ------------------------------------------------------------------ the throughput test
Workers == 1 .. MaxNdp

\* the test is not running: no thread was created
NoTest == [ctl |-> "idle", i |-> 1, pc |-> [k \in Workers |-> "unstarted"],
           res |-> [k \in Workers |-> "none"], q |-> <<>>]

\* what adb shell iperf3 -c ... -J prints: a first line with "error" in it, a
\* JSON document with an "error" member, a JSON document with the rates
IperfOutputs == {"error_line", "json_error", "json_rates"}

\* run_iperf_client(server_host, extra_args): the status it returns for what the
\* command printed
RunIperfClient(out) == out # "error_line"

\* ------------------------------------------------------------------ device lists
\* the characters of the texts adb devices and fastboot devices print
TAB == 9
NL == 10
SP == 32
VT == 11
FF == 12
CR == 13

\* what str.strip() removes at both ends of an ASCII string
Whitespace == {TAB, NL, VT, FF, CR, SP}

RECURSIVE LStrip(_)
LStrip(s) == IF s # <<>> /\ Head(s) \in Whitespace THEN LStrip(Tail(s)) ELSE s

RECURSIVE RStrip(_)
RStrip(s) ==
    IF s # <<>> /\ s[Len(s)] \in Whitespace THEN RStrip(SubSeq(s, 1, Len(s) - 1)) ELSE s

\* s.strip()
Strip(s) == RStrip(LStrip(s))

\* s.split(sep) for a separator of one character: the pieces between the
\* separators, empty pieces included, a single piece when there is none
RECURSIVE Split(_, _)
Split(s, sep) ==
    IF \A i \in 1 .. Len(s) : s[i] # sep
    THEN <<s>>
    ELSE LET i == CHOOSE j \in 1 .. Len(s) :
                      s[j] = sep /\ \A k \in 1 .. (j - 1) : s[k] # sep
         IN  <<SubSeq(s, 1, i - 1)>> \o Split(SubSeq(s, i + 1, Len(s)), sep)

\* the loop of _parse_device_list over clean_lines, with the line left
\* as it is read
RECURSIVE ParseLines_NoStrip(_, _)
ParseLines_NoStrip(clean_lines, key) ==
    IF clean_lines = <<>>
    THEN <<>>
    ELSE LET tokens == Split(Head(clean_lines), TAB)
         IN  (IF Len(tokens) = 2 /\ tokens[2] = key THEN <<tokens[1]>> ELSE <<>>)
                 \o ParseLines_NoStrip(Tail(clean_lines), key)

\* the loop of _parse_device_list over clean_lines
RECURSIVE ParseLines(_, _)
ParseLines(clean_lines, key) ==
    IF clean_lines = <<>>
    THEN <<>>
    ELSE LET tokens == Split(Strip(Head(clean_lines)), TAB)
         IN  (IF Len(tokens) = 2 /\ tokens[2] = key THEN <<tokens[1]>> ELSE <<>>)
                 \o ParseLines(Tail(clean_lines), key)

\* _parse_device_list(device_list_str, key), device_list_str being ASCII text
ParseDeviceList(device_list_str, key) ==
    ParseLines(Split(Strip(device_list_str), NL), key)

\* the ready-state markers of list_adb_devices ("device") and of
\* list_fastboot_devices ("fastboot"), one letter each: "d" and "f"
Keys == {<<100>>, <<102>>}

\* the characters of a listing: the two letters, which make the serials as
\* well as the markers, the tab and the newline
ListChars == {TAB, NL, 100, 102}

\* the texts of at most n characters of alphabet
RECURSIVE TextsOf(_, _)
TextsOf(alphabet, n) ==
    IF n = 0
    THEN {<<>>}
    ELSE LET shorter == TextsOf(alphabet, n - 1)
         IN  shorter \cup {Append(t, c) : t \in {u \in shorter : Len(u) = n - 1},
                                         c \in alphabet}

\* the texts a device listing is drawn from
DeviceListStrs == TextsOf(ListChars, MaxListLen)

\* _parse_device_list was not called
NotParsed == [str |-> <<>>, key |-> <<>>, results |-> <<>>, called |-> FALSE]

\* ------------------------------------------------------------------ actions
Init ==
    /\ ads = [s \in Serials |-> NoHandle]
    /\ conns = <<>>
    /\ fwd = {}
    /\ root = {}
    /\ log = <<>>
    /\ op = OpRec("idle", NoSerial, 0)
    /\ exc = "none"
    /\ ret = NONE
    /\ red = <<>>
    /\ fleet = <<>>
    /\ thr = NoTest
    /\ parsed = NotParsed

\* the caller has the result of the call and goes on
ReturnAct ==
    /\ ~Idle
    /\ op' = OpRec("idle", NoSerial, 0)
    /\ log' = <<>> /\ exc' = "none" /\ ret' = NONE /\ red' = <<>>
    /\ UNCHANGED <<ads, conns, fwd, root, fleet, thr, parsed>>

\* AndroidDevice(serial), for a serial of D attached in a mode of M
ConstructAct(D, M) ==
    \E d \in D, m \in M :
        /\ Idle /\ ~ads[d].born
        /\ Commit(Construct(World([AllReady EXCEPT ![d] = m], {}), d),
                  [OpRec("init_device", d, 0) EXCEPT !.mode = [AllReady EXCEPT ![d] = m]])
        /\ UNCHANGED fleet

\* the handle is garbage-collected
DelAct(D) ==
    \E d \in D :
        /\ Idle /\ ads[d].exists
        /\ Commit(Del(World(AllReady, {}), d), OpRec("del", d, 0))
        /\ UNCHANGED fleet

StartNewSessionAct(D) ==
    \E d \in D, r \in Outcomes :
        /\ Idle /\ ads[d].exists /\ ads[d].h_port # NONE
        /\ Len(conns) < MaxConns
        /\ Commit(StartNewSession(World(AllReady, {}), d, r), OpRec("start_new_session", d, r))
        /\ UNCHANGED fleet

AddNewConnectionToSessionAct(D) ==
    \E d \in D, uid \in Uids, ok \in BOOLEAN :
        /\ Idle /\ ads[d].exists
        /\ uid \notin DOMAIN ads[d].sessions => ok
        /\ uid \in DOMAIN ads[d].sessions => Len(conns) < MaxConns
        /\ Commit(AddNewConnectionToSession(World(AllReady, {}), d, uid, ok),
                  OpRec("add_new_connection_to_session", d, uid))
        /\ UNCHANGED fleet

GetDispatcherAct(D) ==
    \E d \in D, c \in 1 .. Len(conns), ok \in BOOLEAN :
        /\ Idle /\ ads[d].exists /\ conns[c].dev = d
        /\ EdKey(d, conns[c].uid) \in DOMAIN ads[d].eds => ok
        /\ LET w == GetDispatcher(World(AllReady, {}), d, c, ok)
           IN  Len(w.conns) <= MaxConns /\ Commit(w, OpRec("get_dispatcher", d, c))
        /\ UNCHANGED fleet

\* the answers get_available_host_port() can give in get_droid(), NONE when it
\* is not asked
PortChoices(w, d) ==
    IF w.ads[d].h_port = NONE \/ ~IsPortAvailable(w, w.ads[d].h_port)
    THEN AvailableHostPorts(w, d)
    ELSE {NONE}

\* get_droid() reads the ports other processes hold only through
\* is_port_available(h_port), and the allocator may return any port that is
\* free: every outcome arises with no port busy or with just h_port busy
BusyChoices(d) == IF ads[d].h_port = NONE THEN {{}} ELSE {{}, {ads[d].h_port}}

\* get_droid(handle_event) on a handle of D, while it leaves no more than cap
\* connections made
GetDroidWithin(D, cap) ==
    \E d \in D, handle_event \in BOOLEAN :
      \E b \in BusyChoices(d) :
        /\ Idle /\ ads[d].exists
        /\ \E o \in Scripts(DOMAIN ads[d].sessions) :
               /\ o.start /\ (handle_event \/ o.join)
               /\ o.p \in PortChoices(World(AllReady, b), d)
               /\ LET w == GetDroid(World(AllReady, b), d, handle_event, o)
                  IN  /\ Len(w.conns) <= cap
                      /\ Commit(w, OpRec("get_droid", d, IF handle_event THEN 1 ELSE 0))
        /\ UNCHANGED fleet

GetDroidAct(D) == GetDroidWithin(D, MaxConns)

\* get_droid(handle_event) on a handle of D while the agent listens (the first
\* attempt connects), the join and the start of the dispatcher succeed, and no
\* other process takes the port
GetDroidListeningAct(D, cap) ==
    \E d \in D, handle_event \in BOOLEAN :
        /\ Idle /\ ads[d].exists
        /\ \E o \in Scripts(DOMAIN ads[d].sessions) :
               /\ o.start /\ o.join /\ o.r1 # 0
               /\ o.p \in PortChoices(World(AllReady, {}), d)
               /\ LET w == GetDroid(World(AllReady, {}), d, handle_event, o)
                  IN  /\ Len(w.conns) <= cap
                      /\ Commit(w, OpRec("get_droid", d, IF handle_event THEN 1 ELSE 0))
        /\ UNCHANGED fleet

TerminateSessionAct(D) ==
    \E d \in D, uid \in Uids :
        /\ Idle /\ ads[d].exists
        /\ \E f \in Failures(d, {uid}) :
               Commit(TerminateSession(World(AllReady, {}), d, uid, f), OpRec("terminate_session", d, uid))
        /\ UNCHANGED fleet

TerminateAllSessionsAct(D) ==
    \E d \in D :
        /\ Idle /\ ads[d].exists
        /\ \E f \in Failures(d, DOMAIN ads[d].sessions) :
               Commit(TerminateAllSessions(World(AllReady, {}), d, f), OpRec("terminate_all_sessions", d, 0))
        /\ UNCHANGED fleet

\* the id programs a device may carry
IdFlavours == {"number", "names"}

\* root_adb() on a handle of D whose device carries either id
RootAdbAct(D) ==
    \E d \in D, fl \in IdFlavours :
        /\ Idle /\ ads[d].exists
        /\ Commit(RootAdb([World(AllReady, {}) EXCEPT !.idu = fl], d),
                  OpRec("root_adb", d, IF fl = "names" THEN 1 ELSE 0))
        /\ UNCHANGED fleet

\* terminate_all_sessions() called again right after a call of it returned
TerminateAllSessionsAgainAct(D) ==
    \E d \in D :
        /\ op.name = "terminate_all_sessions" /\ op.dev = d /\ exc = "none"
        /\ ads[d].exists
        /\ \E f \in Failures(d, DOMAIN ads[d].sessions) :
               Commit(TerminateAllSessions(World(AllReady, {}), d, f),
                      OpRec("terminate_all_sessions_again", d, 0))
        /\ UNCHANGED fleet

\* the end of a run for one handle: terminate_all_sessions(), then the object is
\* released and __del__ runs
TeardownAct(D) ==
    \E d \in D :
        /\ Idle /\ ads[d].exists
        /\ \E f \in Failures(d, DOMAIN ads[d].sessions) :
               Commit(Del(TerminateAllSessions(World(AllReady, {}), d, f), d), OpRec("teardown", d, 0))
        /\ UNCHANGED fleet

\* the poll at which sys.boot_completed first reads 1 (0: it never does)
BootPolls == 0 .. 3

\* how long one adb shell call takes on a device that is coming back, in seconds:
\* with 300 the ceiling passes during the third poll, with 901 during the first
ShellSecs == {300, 901}

\* no close and no clean-up throws
NoFailures == [sig |-> {}, loc |-> {}, ed |-> {}, rm |-> {}]

\* the ways a device comes back that differ in effect: in firmware-update mode
\* nothing is polled, and a slow shell leaves one poll
Comebacks(M) ==
    {c \in [m : M, boot : BootPolls, secs : ShellSecs] :
        /\ c.m = "fastboot" => c.boot = 0 /\ c.secs = 300
        /\ c.secs = 901 => c.boot <= 1}

\* the scripts that can differ in effect on the get_droid() of a reboot: none
\* when get_droid() is not reached, otherwise those of the registry and the port
\* that terminate_all_sessions() left in world w
RebootScripts(w, d, c) ==
    IF c.m = "fastboot" \/ c.boot = 0 THEN {DefaultO}
    ELSE {o \in Scripts(DOMAIN w.ads[d].sessions) : o.p \in PortChoices(w, d)}

\* reboot(), on a device of D attached in a mode c.m of M.  A reboot makes at most two
\* connections, and is called while no more than MaxConns exist
RebootAct(D, M) ==
    \E d \in D, c \in Comebacks(M) :
        /\ Idle /\ ads[d].exists
        /\ Len(conns) <= MaxConns
        /\ \E f \in Failures(d, DOMAIN ads[d].sessions) :
               /\ c.m = "fastboot" => f = NoFailures
               /\ \E o \in RebootScripts(TerminateAllSessions(World(AllReady, {}), d, f), d, c) :
                      Commit(Reboot(World([AllReady EXCEPT ![d] = c.m], {}), d, f, c.boot, c.secs, o),
                             [OpRec("reboot", d, c.boot) EXCEPT !.mode = [AllReady EXCEPT ![d] = c.m]])
        /\ UNCHANGED fleet

\* the poll at which sys.boot_completed first reads 1 when the wait is called by
\* itself (0: never): up to past the last poll the ceiling leaves room for
WaitPolls == 0 .. (BootCeiling \div (50 + PollInterval) + 3)

\* how long one adb shell call takes then, in seconds: from 50, which leaves
\* room for seventeen polls, to as in ShellSecs
WaitSecs == {50, 75, 100, 150} \cup ShellSecs

\* wait_for_boot_completion() on a handle of D
WaitForBootCompletionAct(D) ==
    \E d \in D, boot \in WaitPolls, secs \in WaitSecs :
        /\ Idle /\ ads[d].exists
        /\ Commit(WaitForBootCompletion(World(AllReady, {}), d, boot, secs, 1, 0),
                  OpRec("wait_for_boot_completion", d, secs))
        /\ UNCHANGED fleet

\* the end of create in world w: the list is returned unless it raised; a handle
\* whose get_droid() was not reached met no environment
CreateDone(w, cfg, o) ==
    /\ \A s \in Serials \ Reached(w) : o[s] = DefaultO
    /\ Len(w.conns) <= MaxFleetConns
    /\ Commit(w, [OpRec("create", NoSerial, 0) EXCEPT !.cfg = cfg, !.mode = w.mode])
    /\ fleet' = IF Failed(w) THEN <<>> ELSE w.lst

\* create(configs): the bring-up of the fleet, the first thing a test run does
CreateAct ==
    \E cfg \in Configs, m \in Modes :
        /\ Idle
        /\ \A s \in Serials : ~ads[s].born
        /\ conns = <<>> /\ fwd = {}
        /\ \E o \in [Serials -> {DefaultO} \cup {x \in Scripts({}) : x.p # NONE}] :
               CreateDone(Create(World(m, {}), cfg, o), cfg, o)

\* the handles of the fleet on which terminate_all_sessions would remove a forward
Releasing == {fleet[i] : i \in {j \in 1 .. Len(fleet) :
                 DOMAIN ads[fleet[j]].sessions # {} /\ ads[fleet[j]].h_port # NONE}}

\* destroy(ads) on the list create returned, at the end of the run: the caller
\* drops the list afterwards.  Here the removal of a forward is let throw too,
\* the one failure of terminate_all_sessions destroy is written for
DestroyAct ==
    /\ Idle /\ fleet # <<>>
    /\ \E f \in Failures(fleet[1], DOMAIN ads[fleet[1]].sessions),
          g \in (IF Len(fleet) > 1 THEN Failures(fleet[2], DOMAIN ads[fleet[2]].sessions)
                 ELSE {NoFailures}),
          rm \in SUBSET Releasing :
           Commit(Destroy(World(AllReady, {}), fleet,
                          [sig |-> f.sig \cup g.sig, loc |-> f.loc \cup g.loc,
                           ed |-> f.ed \cup g.ed, rm |-> rm]),
                  OpRec("destroy", NoSerial, 0))
    /\ fleet' = <<>>

\* the handles and the devices are left alone by the throughput threads
HandlesUntouched == UNCHANGED <<ads, conns, fwd, root, log, op, exc, ret, red, fleet, parsed>>

\* run_iperf_max_ndp_aware_only: the data paths are up, q and the threads are created
BeginIperfAct ==
    /\ thr.ctl = "idle"
    /\ thr' = [NoTest EXCEPT !.ctl = "starting"]
    /\ HandlesUntouched

\* for thread in threads: thread.start()
StartThreadAct ==
    /\ thr.ctl = "starting"
    /\ thr' = [thr EXCEPT !.pc[thr.i] = "server",
                          !.i = IF thr.i = MaxNdp THEN 1 ELSE thr.i + 1,
                          !.ctl = IF thr.i = MaxNdp THEN "joining" ELSE "starting"]
    /\ HandlesUntouched

\* for thread in threads: thread.join(): returns once the thread has ended; after
\* the last join come the cleanup and the first q.get()
JoinAct ==
    /\ thr.ctl = "joining"
    /\ thr.pc[thr.i] \in {"done", "dead"}
    /\ thr' = [thr EXCEPT !.i = IF thr.i = MaxNdp THEN 1 ELSE thr.i + 1,
                          !.ctl = IF thr.i = MaxNdp THEN "collecting" ELSE "joining"]
    /\ HandlesUntouched

\* run_iperf in worker k: dut.run_iperf_server(...) and the assert on its result,
\* which ends the thread when the server did not start
WorkerServerAct ==
    \E k \in Workers, result \in BOOLEAN :
        /\ thr.pc[k] = "server"
        /\ thr' = [thr EXCEPT !.pc[k] = IF result THEN "client" ELSE "dead"]
        /\ HandlesUntouched

\* run_iperf in worker k: peer_dut.run_iperf_client(...)
WorkerClientAct ==
    \E k \in Workers, out \in IperfOutputs :
        /\ thr.pc[k] = "client"
        /\ thr' = [thr EXCEPT !.pc[k] = "put", !.res[k] = out]
        /\ HandlesUntouched

\* run_iperf in worker k: q.put((result, data)), the last statement of the thread
WorkerPutAct ==
    \E k \in Workers :
        /\ thr.pc[k] = "put"
        /\ thr' = [thr EXCEPT !.pc[k] = "done", !.q = Append(@, thr.res[k])]
        /\ HandlesUntouched

\* result, data = q.get() in the control thread, which blocks while q is empty,
\* and the asserts on what it got
CollectAct ==
    /\ thr.ctl = "collecting"
    /\ thr.q # <<>>
    /\ thr' = [thr EXCEPT !.q = Tail(@),
                          !.i = thr.i + 1,
                          !.ctl = IF ~RunIperfClient(Head(thr.q)) \/ Head(thr.q) = "json_error"
                                  THEN "failed"
                                  ELSE IF thr.i = MaxNdp THEN "finished" ELSE "collecting"]
    /\ HandlesUntouched

\* ------------------------------------------------------------------ specifications
\* One Device Handle and the calls a test script makes on it.
Handles == {SerialA}

Next ==
    \/ ReturnAct
    \/ ConstructAct(Handles, {"device"})
    \/ DelAct(Handles)
    \/ StartNewSessionAct(Handles)
    \/ AddNewConnectionToSessionAct(Handles)
    \/ GetDispatcherAct(Handles)
    \/ GetDroidAct(Handles)
    \/ TerminateSessionAct(Handles)
    \/ TerminateAllSessionsAct(Handles)
    \/ TeardownAct(Handles)

Spec == Init /\ [][Next]_vars

\* The fleet: create, what a test does to the sessions of its handles, destroy.
FleetNext ==
    \/ ReturnAct
    \/ CreateAct
    \/ DestroyAct
    \/ TerminateSessionAct(Serials)
    \/ TerminateAllSessionsAct(Serials)
    \/ DelAct(Serials)

FleetSpec == Init /\ [][FleetNext]_vars

\* One Device Handle whose device is rebooted between the calls of a test.
RebootNext ==
    \/ ReturnAct
    \/ ConstructAct(Handles, {"device"})
    \/ GetDroidAct(Handles)
    \/ TerminateSessionAct(Handles)
    \/ RebootAct(Handles, {"device", "fastboot"})
    \/ DelAct(Handles)

RebootSpec == Init /\ [][RebootNext]_vars

\* One Device Handle whose device sits in the bootloader whenever it is rebooted.
BootloaderNext ==
    \/ ReturnAct
    \/ ConstructAct(Handles, {"device"})
    \/ GetDroidAct(Handles)
    \/ TerminateAllSessionsAct(Handles)
    \/ RebootAct(Handles, {"fastboot"})
    \/ DelAct(Handles)

BootloaderSpec == Init /\ [][BootloaderNext]_vars

\* One Device Handle that opens several sessions, with and without event handling.
RegistryNext ==
    \/ ReturnAct
    \/ ConstructAct(Handles, {"device"})
    \/ GetDroidWithin(Handles, MaxRegistryConns)
    \/ TerminateSessionAct(Handles)
    \/ DelAct(Handles)

RegistrySpec == Init /\ [][RegistryNext]_vars

\* One Device Handle whose sessions are opened against a listening agent and
\* terminated one by one.
SessionsNext ==
    \/ ReturnAct
    \/ ConstructAct(Handles, {"device"})
    \/ GetDroidListeningAct(Handles, MaxRegistryConns)
    \/ TerminateSessionAct(Handles)

SessionsSpec == Init /\ [][SessionsNext]_vars

\* One Device Handle on which a test repeats a call.
RepeatNext ==
    \/ ReturnAct
    \/ ConstructAct(Handles, {"device", "fastboot"})
    \/ GetDroidAct(Handles)
    \/ TerminateAllSessionsAct(Handles)
    \/ TerminateAllSessionsAgainAct(Handles)
    \/ RootAdbAct(Handles)
    \/ DelAct(Handles)

RepeatSpec == Init /\ [][RepeatNext]_vars

\* The throughput test: the control thread, its max_ndp workers and the queue.
IperfNext ==
    \/ BeginIperfAct
    \/ StartThreadAct
    \/ JoinAct
    \/ WorkerServerAct
    \/ WorkerClientAct
    \/ WorkerPutAct
    \/ CollectAct

IperfSpec == Init /\ [][IperfNext]_vars

\* One Device Handle that waits for its device to come up.
BootWaitNext ==
    \/ ReturnAct
    \/ ConstructAct(Handles, {"device", "fastboot"})
    \/ WaitForBootCompletionAct(Handles)
    \/ DelAct(Handles)

BootWaitSpec == Init /\ [][BootWaitNext]_vars

\* ------------------------------------------------------------------ properties
\* the positions of the calls named name in the log L of an operation
IdxIn(L, name) == {i \in 1 .. Len(L) : L[i].op = name}

Idx(name) == IdxIn(log, name)

\* every position of A is before every position of B
Before(A, B) == \A i \in A, j \in B : i < j

\* the session-creation attempt at position i of log L was answered with an id
\* that was ACTIVE
DuplicateAt(L, i) == i < Len(L) /\ L[i + 1].op = "raise_SL4AException"

\* the session-creation attempt at position i of log L did not yield a session
AttemptFailed(L, i) == L[i].n = 0 \/ DuplicateAt(L, i)

\* C1: start_new_session, when the agent answers with an id that is ACTIVE in the
\* registry, raises and leaves the handle (session map, event-channel map, port)
\* exactly as it was; and the sessions of a registry never share a connection,
\* each live connection being listed under the id the agent gave it.
C1_DuplicateIdRejected ==
    /\ [][(op'.name = "start_new_session" /\ op'.arg \in DOMAIN ads[op'.dev].sessions)
             => (exc' = "SL4AException" /\ ads' = ads)]_vars
    /\ [](\A d \in Serials : \A i, j \in DOMAIN ads[d].sessions :
             /\ \A k \in 1 .. Len(ads[d].sessions[i]) :
                    conns[ads[d].sessions[i][k]].uid = i
             /\ i # j => \A k \in 1 .. Len(ads[d].sessions[i]), l \in 1 .. Len(ads[d].sessions[j]) :
                            ads[d].sessions[i][k] # ads[d].sessions[j][l])

\* a start_new_session was answered with an ACTIVE id and rejected
C1_Witness ==
    /\ op.name = "start_new_session"
    /\ exc = "SL4AException"
    /\ op.arg \in DOMAIN ads[op.dev].sessions

\* C2: add_new_connection_to_session on an id that is not ACTIVE raises
\* DoesNotExistError, calls no collaborator (opens no connection) and leaves the
\* connections and the handle unchanged.
C2_JoinRequiresActive ==
    [][(op'.name = "add_new_connection_to_session"
          /\ op'.arg \notin DOMAIN ads[op'.dev].sessions)
         => (exc' = "DoesNotExistError" /\ conns' = conns /\ ads' = ads /\ log' = <<>>)]_vars

\* a join was refused on a handle one of whose sessions was terminated before
C2_Witness ==
    /\ op.name = "add_new_connection_to_session"
    /\ exc = "DoesNotExistError"
    /\ \E c \in 1 .. Len(conns) : conns[c] = Closed

\* connection c was made for session uid of handle d: it created the session,
\* or it joined it after the session was created
BelongsTo(c, d, uid) ==
    /\ conns[c].dev = d /\ conns[c].uid = uid
    /\ \/ \E k \in 1 .. Len(ads[d].sessions[uid]) : ads[d].sessions[uid][k] = c
       \/ conns[c].kind = "continue" /\ c > ads[d].sessions[uid][1]

\* C3: after terminate_session(id) returns normally on an ACTIVE session, the
\* connection that created the session and every connection that joined it
\* since are closed.
C3_TerminateClosesEveryConnection ==
    [][(op'.name = "terminate_session" /\ op'.arg \in DOMAIN ads[op'.dev].sessions
          /\ exc' = "none")
         => \A c \in 1 .. Len(conns) :
               BelongsTo(c, op'.dev, op'.arg) => conns'[c] = Closed]_vars

\* C4: when a close throws during terminate_session, the failure is propagated
\* and both registry entries of the session are removed all the same.
C4_TerminateResilient ==
    (op.name = "terminate_session"
       /\ Idx("closeSl4aSession_failed") \cup Idx("close_failed") # {})
    => /\ exc # "none"
       /\ op.arg \notin DOMAIN ads[op.dev].sessions
       /\ EdKey(op.dev, op.arg) \notin DOMAIN ads[op.dev].eds

\* C5: terminate_all_sessions on a handle with no session and a held port
\* removes the forward mapping of that port and leaves no port held.
C5_TerminateAllReleasesPort ==
    [][(op'.name = "terminate_all_sessions" /\ DOMAIN ads[op'.dev].sessions = {}
          /\ ads[op'.dev].h_port # NONE)
         => (ads'[op'.dev].h_port = NONE /\ <<op'.dev, ads[op'.dev].h_port>> \notin fwd')]_vars

\* C6: after terminate_all_sessions followed by the destruction of the handle,
\* no forward mapping the handle established is left.
C6_NoForwardSurvivesTeardown ==
    op.name = "teardown" => \A p \in Ports : <<op.dev, p>> \notin fwd

\* C7: one get_droid makes one or two session-creation attempts and starts the
\* agent at most once; it starts it iff the first attempt failed, and then
\* exactly one attempt follows; a failed last attempt is raised to the caller
\* and no connection is opened after it.
C7_RetryBudget ==
    op.name = "get_droid" =>
        LET A == Idx("Android")
            S == Idx("start_sl4a")
            first == CHOOSE i \in A : \A j \in A : i <= j
            last == CHOOSE i \in A : \A j \in A : j <= i
        IN  /\ A # {} /\ Cardinality(A) <= 2 /\ Cardinality(S) <= 1
            /\ S # {} <=> AttemptFailed(log, first)
            /\ S # {} => Cardinality(A) = 2 /\ Before({first}, S) /\ Before(S, {last})
            /\ S = {} => Cardinality(A) = 1
            /\ AttemptFailed(log, last) => exc # "none" /\ Idx("AndroidContinue") = {}

\* a get_droid whose first attempt failed and whose second attempt made the session
C7_Witness ==
    /\ op.name = "get_droid" /\ exc = "none"
    /\ Idx("start_sl4a") # {}
    /\ Cardinality(Idx("Android")) = 2

\* C8: a get_droid whose first attempt is answered with an ACTIVE id raises
\* that failure without starting the agent and without a second attempt.
C8_DuplicateIdNotRetried ==
    (op.name = "get_droid"
       /\ \E i \in Idx("Android") :
             /\ \A j \in Idx("Android") : i <= j
             /\ DuplicateAt(log, i))
    => /\ Idx("start_sl4a") = {}
       /\ Cardinality(Idx("Android")) = 1
       /\ exc = "SL4AException"

\* C9: in terminate_session(id) on an ACTIVE session with an event channel, the
\* connections are closed before the event channel is torn down, and the event
\* channel is torn down before the entry of the session is removed from the
\* registry.
C9_TeardownOrder ==
    [][(op'.name = "terminate_session" /\ op'.arg \in DOMAIN ads[op'.dev].sessions
          /\ EdKey(op'.dev, op'.arg) \in DOMAIN ads[op'.dev].eds)
         => LET L == log'
                closes == IdxIn(L, "closeSl4aSession") \cup IdxIn(L, "close")
                teardown == IdxIn(L, "clean_up") \cup IdxIn(L, "clean_up_failed")
            IN  /\ Before(closes, teardown)
                /\ Before(teardown, IdxIn(L, "del_session"))]_vars

\* C10: create on a list of serials one of which is not an attached ready
\* device raises DoesNotExistError, and up to then no connection was attempted
\* and no event channel started on any device.
C10_BringUpFailsFast ==
    (op.name = "create" /\ op.cfg.kind = "serials"
       /\ \E i \in 1 .. Len(op.cfg.items) : op.mode[op.cfg.items[i].serial] # "device")
    => /\ exc = "DoesNotExistError"
       /\ Idx("Android") \cup Idx("AndroidContinue") = {}
       /\ Idx("ed_start") \cup Idx("ed_start_failed") = {}

\* the calls that open terminate_session on a session whose first connection is c
ClosesOf(L, c) ==
    {i \in IdxIn(L, "closeSl4aSession") \cup IdxIn(L, "closeSl4aSession_failed") : L[i].n = c}

\* the closes and clean-ups that threw during the operation with log L
ThrownIn(L) ==
    IdxIn(L, "closeSl4aSession_failed") \cup IdxIn(L, "close_failed")
        \cup IdxIn(L, "clean_up_failed")

\* C11: a terminate_all_sessions in which terminate_session failed for a session
\* still calls terminate_session for every id of the snapshot, returns normally,
\* and after the loop removes the forward of the held port and holds no port.
C11_TerminateAllLogAndContinue ==
    [][(op'.name = "terminate_all_sessions" /\ ThrownIn(log') # {})
         => LET d == op'.dev
                h == ads[d]
                L == log'
            IN  /\ exc' = "none"
                /\ \A id \in DOMAIN h.sessions : ClosesOf(L, h.sessions[id][1]) # {}
                /\ \A id \in DOMAIN h.sessions :
                       (\E i \in IdxIn(L, "log_exception") : L[i].n = id)
                       \/ id \notin DOMAIN ads'[d].sessions
                /\ ads'[d].h_port = NONE
                /\ h.h_port # NONE =>
                       /\ <<d, h.h_port>> \notin fwd'
                       /\ L[Len(L)].op = "forward_remove" /\ L[Len(L)].port = h.h_port]_vars

\* terminate_all_sessions went on to the second session after the first one
\* failed, and released the port
C11_Witness ==
    /\ op.name = "terminate_all_sessions"
    /\ \E i \in ThrownIn(log), j \in Idx("close") : i < j
    /\ Idx("forward_remove") # {}

\* C12: after terminate_session(id) returned normally on an ACTIVE session, id is
\* in neither map of the handle, and a join of id then raises DoesNotExistError.
C12_TerminatedIsAbsent ==
    [][/\ (op'.name = "terminate_session" /\ op'.arg \in DOMAIN ads[op'.dev].sessions
            /\ exc' = "none")
           => /\ op'.arg \notin DOMAIN ads'[op'.dev].sessions
              /\ EdKey(op'.dev, op'.arg) \notin DOMAIN ads'[op'.dev].eds
              /\ Failed(AddNewConnectionToSession(
                     [World(AllReady, {}) EXCEPT !.ads = ads'], op'.dev, op'.arg, TRUE))
       /\ (op'.name = "add_new_connection_to_session"
            /\ \E i \in 1 .. Len(conns) : conns[i] = Closed
            /\ op'.arg \notin DOMAIN ads[op'.dev].sessions)
           => exc' = "DoesNotExistError"]_vars

\* a session with an event channel was terminated and the call returned
C12_Witness ==
    /\ op.name = "terminate_session" /\ exc = "none"
    /\ Idx("del_session") # {} /\ Idx("del_ed") # {}
    /\ op.arg \notin DOMAIN ads[op.dev].sessions

\* the handles of the list create returned
FleetSet == {fleet[i] : i \in 1 .. Len(fleet)}

\* no earlier failure left a half-removed session on handle d: every event
\* channel of the handle belongs to a session of its session map
Whole(d) == \A k \in DOMAIN ads[d].eds : \E id \in DOMAIN ads[d].sessions : k = EdKey(d, id)

\* C13: after a destroy of the handles a successful create returned in which no
\* close, clean-up or forward removal failed (and none had left a half-removed
\* session before), every
\* handle has an empty session map, an empty event-channel map, no held port
\* and no forward in place.
C13_DestroyLeavesNothing ==
    [][(op'.name = "destroy" /\ ThrownIn(log') = {} /\ IdxIn(log', "forward_remove_failed") = {}
          /\ \A d \in FleetSet : Whole(d))
         => \A d \in FleetSet :
               /\ DOMAIN ads'[d].sessions = {}
               /\ DOMAIN ads'[d].eds = {}
               /\ ads'[d].h_port = NONE
               /\ \A p \in Ports : <<d, p>> \notin fwd']_vars

\* C14: destroy returns normally whatever failed, calls terminate_all_sessions on
\* every handle of the list in the order of the list, and reaches the sessions of
\* every handle that has some.
C14_DestroyBestEffort ==
    [][op'.name = "destroy"
         => LET L == log'
                calls == SelectSeq(L, LAMBDA e : e.op = "terminate_all_sessions")
            IN  /\ exc' = "none"
                /\ Len(calls) = Len(fleet)
                /\ \A i \in 1 .. Len(fleet) : calls[i].dev = fleet[i]
                /\ \A d \in FleetSet : \A id \in DOMAIN ads[d].sessions :
                       ClosesOf(L, ads[d].sessions[id][1]) # {}]_vars

\* the teardown of the first handle raised and the second handle was torn down
C14_Witness ==
    /\ op.name = "destroy"
    /\ \E i \in Idx("forward_remove_failed"), j \in Idx("forward_remove") :
           i < j /\ log[i].dev # log[j].dev

\* the list of handles the create of the last operation built, from its arguments
CreateList ==
    IF op.cfg.kind = "all" THEN AdbDeviceList([mode |-> op.mode])
    ELSE SerialsOf(op.cfg.items)

\* the position of serial d in the list lst, 0 when it is not in it
Pos(lst, d) == IF \E i \in 1 .. Len(lst) : lst[i] = d
               THEN CHOOSE i \in 1 .. Len(lst) : lst[i] = d ELSE 0

\* get_droid() or ed.start() threw for handle d during the last operation
ThrewFor(d) ==
    LET A == {i \in Idx("Android") : log[i].dev = d}
    IN  \/ A # {} /\ AttemptFailed(log, CHOOSE i \in A : \A j \in A : j <= i)
        \/ \E i \in Idx("AndroidContinue") : log[i].dev = d /\ log[i].n = 0
        \/ \E i \in Idx("ed_start_failed") : log[i].dev = d

\* handle d has a session with open connections, a started event channel and a
\* forwarded port
Established(d) ==
    /\ DOMAIN ads[d].sessions # {}
    /\ \A id \in DOMAIN ads[d].sessions : \A k \in 1 .. Len(ads[d].sessions[id]) :
           conns[ads[d].sessions[id][k]].st = "open"
    /\ DOMAIN ads[d].eds # {}
    /\ \A k \in DOMAIN ads[d].eds : ads[d].eds[k].started /\ conns[ads[d].eds[k].droid].st = "open"
    /\ ads[d].h_port # NONE /\ <<d, ads[d].h_port>> \in fwd

\* C15: when get_droid() or ed.start() throws for a handle of the list, create
\* raises ControllerError after logging a message that names the handle, nothing
\* is called on the handles after it, and the handles before it keep their
\* session, started event channel and forwarded port.
C15_BringUpFailureWrapped ==
    \A d \in Serials :
        (op.name = "create" /\ ThrewFor(d))
        => /\ exc = "ControllerError"
           /\ log[Len(log)].op = "log_exception" /\ log[Len(log)].dev = d
           /\ \A e \in Serials :
                 /\ Pos(CreateList, e) > Pos(CreateList, d)
                      => \A i \in 1 .. Len(log) :
                            log[i].dev = e
                            => log[i].op \notin {"is_port_available", "tcp_forward", "start_sl4a",
                                                 "Android", "AndroidContinue", "ed_start",
                                                 "ed_start_failed"}
                 /\ (0 < Pos(CreateList, e) /\ Pos(CreateList, e) < Pos(CreateList, d))
                      => Established(e)

\* create failed on the second handle of the list after it had set up the first
C15_Witness ==
    /\ op.name = "create" /\ exc = "ControllerError"
    /\ \E d, e \in Serials :
           /\ ThrewFor(d) /\ Established(e)
           /\ 0 < Pos(CreateList, e) /\ Pos(CreateList, e) < Pos(CreateList, d)

\* C16: create on a list of config records one of which has no "serial" raises
\* the configuration error (ControllerError) with no adb or fastboot command
\* issued for any record of the list.
C16_MissingSerialBeforeIO ==
    (op.name = "create" /\ op.cfg.kind = "dicts"
       /\ \E i \in 1 .. Len(op.cfg.items) : op.cfg.items[i].serial = NoSerial)
    => (exc = "ControllerError" /\ log = <<>>)

\* C17: get_dispatcher(droid) for a session whose key is in the event-channel map
\* returns that entry, opens no connection and changes neither map; otherwise it
\* opens exactly one joined connection to the session and adds exactly one entry,
\* holding that connection, under the key of the session.  In every state the
\* entries of a handle hold joined connections of the sessions that key them.
C17_DispatcherLookupOrCreate ==
    /\ [][op'.name = "get_dispatcher"
            => LET d == op'.dev
                   uid == conns[op'.arg].uid
                   key == EdKey(d, uid)
                   n == Len(conns) + 1
               IN  IF key \in DOMAIN ads[d].eds
                   THEN /\ exc' = "none" /\ red' = key
                        /\ conns' = conns /\ ads' = ads /\ log' = <<>>
                   ELSE IF exc' = "none"
                   THEN /\ red' = key
                        /\ conns' = Append(conns, [dev |-> d, uid |-> uid, kind |-> "continue",
                                                   st |-> "open"])
                        /\ ads'[d].eds = With(ads[d].eds, key, [droid |-> n, started |-> FALSE])
                        /\ ads'[d].sessions = ads[d].sessions
                        /\ Cardinality(IdxIn(log', "AndroidContinue")) = 1
                   ELSE conns' = conns /\ ads' = ads]_vars
    /\ [](\A d \in Serials : \A k \in DOMAIN ads[d].eds :
             /\ conns[ads[d].eds[k].droid].kind = "continue"
             /\ k = EdKey(d, conns[ads[d].eds[k].droid].uid)
             /\ \A j \in DOMAIN ads[d].eds : j # k => ads[d].eds[j].droid # ads[d].eds[k].droid)

\* get_dispatcher returned the dispatcher the session already had
C17_Witness ==
    /\ op.name = "get_dispatcher" /\ exc = "none"
    /\ red # <<>> /\ log = <<>>
    /\ red \in DOMAIN ads[op.dev].eds

Reopening(L) ==
    IdxIn(L, "shell_id_u") \cup IdxIn(L, "root") \cup IdxIn(L, "remount")
    \cup IdxIn(L, "tcp_forward") \cup IdxIn(L, "Android") \cup IdxIn(L, "AndroidContinue")
    \cup IdxIn(L, "ed_start") \cup IdxIn(L, "ed_start_failed")

\* the positions in log L of the polls that read sys.boot_completed as 1
BootObserved(L) == {i \in IdxIn(L, "getprop") : L[i].n = 1}

\* a step that is a reboot() of a device in normal mode
NormalReboot == op'.name = "reboot" /\ op'.mode[op'.dev] = "device"

\* C19: a reboot of a device in normal mode is strictly ordered: every session
\* of the registry is removed and the forwarding port released before the one
\* reboot command, the polls come after the reboot command, re-elevation and
\* the opening of the session come after a poll that saw the boot complete, and
\* when reboot returns, the droid it returns is in the registry under its
\* session id with its dispatcher registered and started.
C19_RebootStrictlyOrdered ==
    [][NormalReboot =>
         /\ Cardinality(IdxIn(log', "reboot")) = 1
         /\ \A u \in DOMAIN ads[op'.dev].sessions :
                \E i \in IdxIn(log', "del_session") :
                    log'[i].n = u /\ Before({i}, IdxIn(log', "reboot"))
         /\ ads[op'.dev].h_port # NONE =>
                \E i \in IdxIn(log', "forward_remove") :
                    log'[i].port = ads[op'.dev].h_port /\ Before({i}, IdxIn(log', "reboot"))
         /\ Before(IdxIn(log', "reboot"), IdxIn(log', "getprop"))
         /\ \A j \in Reopening(log') : \E i \in BootObserved(log') : i < j
         /\ exc' = "none" =>
                /\ ret' # NONE
                /\ conns'[ret'].uid \in DOMAIN ads'[op'.dev].sessions
                /\ ads'[op'.dev].sessions[conns'[ret'].uid][1] = ret'
                /\ conns'[ret'].st = "open"
                /\ red' = EdKey(op'.dev, conns'[ret'].uid)
                /\ red' \in DOMAIN ads'[op'.dev].eds
                /\ ads'[op'.dev].eds[red'].started
    ]_vars

\* C20: when no poll of a reboot of a device in normal mode reads
\* sys.boot_completed as 1, reboot raises the timeout error, nothing re-elevates
\* adbd or opens a session, and the handle is left with an empty registry and
\* no forwarding port.
C20_RebootTimeout ==
    [][(NormalReboot /\ BootObserved(log') = {}) =>
         /\ exc' = "AndroidDeviceError"
         /\ Reopening(log') = {}
         /\ DOMAIN ads'[op'.dev].sessions = {}
         /\ ads'[op'.dev].h_port = NONE
    ]_vars

\* C21: a reboot of a device in firmware-update mode issues the fastboot reboot
\* and returns: the handle (session map, event-channel map, held port), the
\* connections and the forwards are unchanged, and no adb reboot, no poll of
\* sys.boot_completed, no teardown and no session creation takes place.
C21_BootloaderRebootOnly ==
    [][(op'.name = "reboot" /\ op'.mode[op'.dev] = "fastboot") =>
         /\ log' = <<Ev("fastboot_devices", op'.dev, 0), Ev("fastboot_reboot", op'.dev, 0)>>
         /\ ads' = ads /\ conns' = conns /\ fwd' = fwd
         /\ exc' = "none" /\ ret' = NONE /\ red' = <<>>
    ]_vars

\* a reboot in firmware-update mode of a handle that has a session with an event
\* channel and holds a forwarded port
C21_Witness ==
    /\ op.name = "reboot" /\ op.mode[op.dev] = "fastboot"
    /\ DOMAIN ads[op.dev].sessions # {} /\ DOMAIN ads[op.dev].eds # {}
    /\ ads[op.dev].h_port # NONE /\ <<op.dev, ads[op.dev].h_port>> \in fwd
    /\ IdxIn(log, "fastboot_reboot") # {}

\* the world between two calls
Now == World(AllReady, {})

\* C22: the eds list is index-aligned with the droids list: every index of eds
\* is an index of droids, and eds[i] is the dispatcher registered for the
\* session whose first connection is droids[i].
C22_EdsAlignedWithDroids ==
    \A d \in Handles :
        ads[d].exists =>
            \A i \in 1 .. Len(Eds(Now, d)) :
                /\ i <= Len(Droids(Now, d))
                /\ Eds(Now, d)[i] = EdKey(d, conns[Droids(Now, d)[i]].uid)

\* C23: droid is None iff the registry has no session, and otherwise the first
\* connection of the session created earliest among those in the registry; ed
\* is None iff no dispatcher is registered, and otherwise the dispatcher that
\* was created earliest among those registered.
C23_FirstCreated ==
    \A d \in Handles :
        ads[d].exists =>
            /\ Droid(Now, d) = NONE <=> DOMAIN ads[d].sessions = {}
            /\ \A u \in DOMAIN ads[d].sessions : Droid(Now, d) <= ads[d].sessions[u][1]
            /\ Ed(Now, d) = <<>> <=> DOMAIN ads[d].eds = {}
            /\ \A k \in DOMAIN ads[d].eds : ads[d].eds[Ed(Now, d)].droid <= ads[d].eds[k].droid

\* the positions in log L of the connections a call tried to open
Connects(L) == IdxIn(L, "Android") \cup IdxIn(L, "AndroidContinue")

\* is_port_available(h_port) was asked in log L and answered yes
ProbedAvailable(L) == \E i \in IdxIn(L, "is_port_available") : L[i].n = 1

\* C24: get_droid keeps the recorded host port iff it is set and available and
\* otherwise holds a newly allocated port; it forwards the port it then holds
\* once, before the first session-creation attempt, and every connection it
\* opens uses that port.
C24_PortThenForwardThenConnect ==
    [][op'.name = "get_droid" =>
         /\ ads'[op'.dev].h_port \in Ports
         /\ (ads[op'.dev].h_port # NONE /\ ProbedAvailable(log'))
                <=> ads'[op'.dev].h_port = ads[op'.dev].h_port
         /\ ads[op'.dev].h_port # NONE <=> IdxIn(log', "is_port_available") # {}
         /\ \A i \in IdxIn(log', "is_port_available") : log'[i].port = ads[op'.dev].h_port
         /\ Cardinality(IdxIn(log', "tcp_forward")) = 1
         /\ \A i \in IdxIn(log', "tcp_forward") :
                log'[i].port = ads'[op'.dev].h_port /\ <<op'.dev, log'[i].port>> \in fwd'
         /\ Before(IdxIn(log', "tcp_forward"), Connects(log'))
         /\ Connects(log') # {}
         /\ \A i \in Connects(log') : log'[i].port = ads'[op'.dev].h_port
    ]_vars

\* a get_droid that found its recorded port taken, took a new one and opened a
\* session with an event connection over it
C24_Witness ==
    /\ op.name = "get_droid" /\ exc = "none"
    /\ \E i \in IdxIn(log, "is_port_available") : log[i].n = 0 /\ log[i].port # ads[op.dev].h_port
    /\ IdxIn(log, "AndroidContinue") # {}

\* C25: when create returns a list of handles, each of them is for a device adb
\* lists as attached and ready, holds a forwarding port whose forward is in
\* place, has a session in its registry, and has a started dispatcher
\* registered for that session.
C25_BringUpComplete ==
    (op.name = "create" /\ exc = "none") =>
        \A i \in 1 .. Len(fleet) :
            /\ ads[fleet[i]].exists
            /\ op.mode[fleet[i]] = "device"
            /\ ads[fleet[i]].h_port # NONE
            /\ <<fleet[i], ads[fleet[i]].h_port>> \in fwd
            /\ DOMAIN ads[fleet[i]].sessions # {}
            /\ \A u \in DOMAIN ads[fleet[i]].sessions :
                   /\ conns[ads[fleet[i]].sessions[u][1]].st = "open"
                   /\ EdKey(fleet[i], u) \in DOMAIN ads[fleet[i]].eds
                   /\ ads[fleet[i]].eds[EdKey(fleet[i], u)].started

\* create returned two handles
C25_Witness == op.name = "create" /\ exc = "none" /\ Len(fleet) = 2

\* the positions in log L of the calls that close a connection, whether they throw or not
Closings(L) ==
    IdxIn(L, "closeSl4aSession") \cup IdxIn(L, "closeSl4aSession_failed")
    \cup IdxIn(L, "close") \cup IdxIn(L, "close_failed")
    \cup IdxIn(L, "clean_up") \cup IdxIn(L, "clean_up_failed")

\* C26: a terminate_all_sessions called right after one that returned raises
\* nothing, closes no connection, issues no forward removal, and leaves the
\* registry empty and the port unset.
C26_TerminateAllTwice ==
    [][op'.name = "terminate_all_sessions_again" =>
         /\ exc' = "none"
         /\ Closings(log') = {}
         /\ IdxIn(log', "forward_remove") = {}
         /\ DOMAIN ads'[op'.dev].sessions = {}
         /\ ads'[op'.dev].h_port = NONE
    ]_vars

\* the calls of log L other than the reading of the user id
Commands(L) == SelectSeq(L, LAMBDA e : e.op # "shell_id_u")

\* C27: root_adb issues nothing when adbd already runs as root on the device,
\* and otherwise issues root, wait-for-device, remount, wait-for-device in that
\* order; afterwards adbd runs as root, so that a second root_adb issues nothing.
C27_RootAdbIdempotent ==
    [][op'.name = "root_adb" =>
         /\ op'.dev \in root => Commands(log') = <<>>
         /\ op'.dev \notin root =>
                Commands(log') = <<Ev("root", op'.dev, 0), Ev("wait_for_device", op'.dev, 0),
                                   Ev("remount", op'.dev, 0), Ev("wait_for_device", op'.dev, 0)>>
         /\ op'.dev \in root'
    ]_vars

\* the positions in log L of the removals of the forward of host port p
RemovalsOf(L, p) == {i \in IdxIn(L, "forward_remove") : L[i].port = p}

\* C28: __del__ on a handle that holds a port issues the removal of the forward
\* of that port and nothing else, and on a handle whose port
\* terminate_all_sessions released issues nothing; no operation removes the
\* forward of a port twice or removes a forward that is not in place.
C28_PortReleasedOnce ==
    [][/\ op'.name = "del" =>
            log' = IF ads[op'.dev].h_port # NONE
                   THEN <<EvConnect("forward_remove", op'.dev, 0, ads[op'.dev].h_port)>>
                   ELSE <<>>
       /\ op'.name \in {"del", "teardown", "terminate_all_sessions"} =>
            /\ \A i \in IdxIn(log', "forward_remove") :
                   /\ log'[i].port = ads[op'.dev].h_port
                   /\ <<op'.dev, log'[i].port>> \in fwd
            /\ \A p \in Ports : Cardinality(RemovalsOf(log', p)) <= 1
            /\ ads[op'.dev].h_port # NONE /\ op'.name # "terminate_all_sessions" =>
                   RemovalsOf(log', ads[op'.dev].h_port) # {}
    ]_vars

\* a handle is disposed of right after its terminate_all_sessions closed a
\* session and released the port
C28_Witness ==
    /\ op.name = "teardown"
    /\ IdxIn(log, "del_session") # {}
    /\ Cardinality(IdxIn(log, "forward_remove")) = 1
    /\ ~ads[op.dev].exists

\* C29: once every worker has been joined, q holds one result per worker less
\* those already retrieved, so that no q.get() of the control thread finds q
\* empty and blocks for good.
C29_HandOffComplete ==
    thr.ctl = "collecting" =>
        /\ Len(thr.q) = MaxNdp - (thr.i - 1)
        /\ thr.q # <<>>

\* the seconds since timeout was set when the k-th sample is back, with adb
\* shell taking secs seconds and PollInterval seconds slept between samples
SampleTime(secs, k) == k * secs + (k - 1) * PollInterval

\* C30: wait_for_boot_completion takes a sample first, sleeps PollInterval
\* seconds between consecutive samples, returns True at the first sample that
\* reads 1 and False at the first sample that does not read 1 and is back after
\* the ceiling, and does nothing after it returned.
C30_PollingTerminates ==
    [][op'.name = "wait_for_boot_completion" =>
         /\ Len(log') >= 2 /\ Len(log') % 2 = 0
         /\ log'[Len(log')].op = "wait_returned"
         /\ \A i \in 1 .. (Len(log') - 1) :
                IF i % 2 = 1 THEN log'[i].op = "getprop"
                ELSE log'[i] = Ev("sleep", op'.dev, PollInterval)
         /\ \A i \in 1 .. (Len(log') - 2) :
                i % 2 = 1 => /\ log'[i].n = 0
                             /\ SampleTime(op'.arg, (i + 1) \div 2) <= BootCeiling
         /\ log'[Len(log')].n = 1 <=> log'[Len(log') - 1].n = 1
         /\ log'[Len(log') - 1].n = 0 => SampleTime(op'.arg, Len(log') \div 2) > BootCeiling
    ]_vars

\* a wait that sampled more than once and then saw the boot complete in a sample
\* that came back after the ceiling
C30_Witness ==
    /\ op.name = "wait_for_boot_completion"
    /\ Len(log) > 2
    /\ log[Len(log)] = Ev("wait_returned", op.dev, 1)
    /\ SampleTime(op.arg, Len(log) \div 2) > BootCeiling

\* ------------------------------------------------------------------ device-list parsing
\* _parse_device_list(device_list_str, key) on a listing and a marker
ParseDeviceListAct ==
    /\ ~parsed.called
    /\ \E str \in DeviceListStrs, key \in Keys :
           parsed' = [str |-> str, key |-> key,
                      results |-> ParseDeviceList(str, key), called |-> TRUE]
    /\ UNCHANGED <<ads, conns, fwd, root, log, op, exc, ret, red, fleet, thr>>

ParseNext == ParseDeviceListAct

ParseSpec == Init /\ [][ParseNext]_vars

\* the first tokens of the lines that have exactly two tab-separated tokens,
\* the second one being key, in the order of the lines
FirstTokens(lines, key) ==
    LET ready(l) == Len(Split(l, TAB)) = 2 /\ Split(l, TAB)[2] = key
        kept == SelectSeq(lines, ready)
    IN  [i \in 1 .. Len(kept) |-> Split(kept[i], TAB)[1]]

\* the lines of a text, each without the whitespace around it
StrippedLines(str) ==
    LET lines == Split(str, NL)
    IN  [i \in 1 .. Len(lines) |-> Strip(lines[i])]

\* C31 as stated: _parse_device_list returns, in input order, exactly the first
\* tokens of the lines of the input that have exactly two tab-separated tokens
\* and whose second token is exactly the marker.
C31_ExactTokens ==
    parsed.called =>
        parsed.results = FirstTokens(Split(parsed.str, NL), parsed.key)

\* C31: _parse_device_list returns, in input order, exactly the first tokens of
\* the lines that, once the whitespace around the line is removed, have exactly
\* two tab-separated tokens and whose second token is exactly the marker; the
\* other lines are skipped and nothing is raised.
C31_StrippedTokens ==
    parsed.called =>
        parsed.results = FirstTokens(StrippedLines(parsed.str), parsed.key)

\* two ready lines were kept in their order, around them lines that were skipped
C31_Witness ==
    /\ parsed.called
    /\ parsed.key = <<100>>
    /\ parsed.str = <<100, TAB, 100, NL, 102, TAB, 100>>
    /\ parsed.results = << <<100>>, <<102>> >>

\* C32: on every handle, every event channel registered in the event-channel
\* map belongs to a session id that is in the session map, whatever calls were
\* made and whichever closes and clean-ups failed.
C32_ChannelsOfActiveSessions ==
    \A d \in Serials :
        \A ed_key \in DOMAIN ads[d].eds :
            \E uid \in DOMAIN ads[d].sessions : ed_key = EdKey(d, uid)

\* connection c is in the list of a session of the session map of handle d, or
\* is the connection of a dispatcher of its event-channel map
Tracked(d, c) ==
    \/ \E uid \in DOMAIN ads[d].sessions :
           \E i \in 1 .. Len(ads[d].sessions[uid]) : ads[d].sessions[uid][i] = c
    \/ \E ed_key \in DOMAIN ads[d].eds : ads[d].eds[ed_key].droid = c

\* C33: every connection a live handle opened and that was not closed is in
\* the connection list of a session of its session map or is the connection of
\* a registered event channel; the connection of a start_new_session rejected
\* for a duplicate id is not left open outside both maps.
C33_NoUntrackedConnection ==
    \A c \in 1 .. Len(conns) :
        (conns[c] # Closed /\ ads[conns[c].dev].exists) => Tracked(conns[c].dev, c)

\* the collaborator calls of log L that act on connection c or on the event
\* channel of session uid
Touching(L, c, uid) ==
    {i \in Closings(L) :
        IF L[i].op \in {"clean_up", "clean_up_failed"} THEN L[i].n = uid ELSE L[i].n = c}

\* session uid of handle d, its connections and its event channel are after
\* the step what they were before it, and log L has no call on any of them
SessionUntouched(d, uid, L) ==
    LET ed_key == EdKey(d, uid) IN
    /\ uid \in DOMAIN ads'[d].sessions
    /\ ads'[d].sessions[uid] = ads[d].sessions[uid]
    /\ \A i \in 1 .. Len(ads[d].sessions[uid]) :
           LET c == ads[d].sessions[uid][i]
           IN  conns'[c] = conns[c] /\ Touching(L, c, uid) = {}
    /\ ed_key \in DOMAIN ads[d].eds =>
           /\ ed_key \in DOMAIN ads'[d].eds
           /\ ads'[d].eds[ed_key] = ads[d].eds[ed_key]
           /\ conns'[ads[d].eds[ed_key].droid] = conns[ads[d].eds[ed_key].droid]
           /\ Touching(L, ads[d].eds[ed_key].droid, uid) = {}

\* C34: terminate_session(id) leaves every other ACTIVE session in the session
\* map with the same connection list, closes none of its connections, leaves
\* its event channel registered and not torn down, and leaves the held port
\* and its forward mapping as they were.
C34_TerminateOnlyThatSession ==
    [][op'.name = "terminate_session"
         => /\ \A uid \in DOMAIN ads[op'.dev].sessions \ {op'.arg} :
                   SessionUntouched(op'.dev, uid, log')
            /\ ads'[op'.dev].h_port = ads[op'.dev].h_port
            /\ fwd' = fwd]_vars

\* a session with an event channel was terminated, its channel torn down,
\* while another session with an event channel was ACTIVE
C34_Witness ==
    /\ op.name = "terminate_session" /\ exc = "none"
    /\ Idx("close") # {} /\ Idx("clean_up") # {}
    /\ \E uid \in DOMAIN ads[op.dev].sessions :
           /\ uid # op.arg
           /\ EdKey(op.dev, uid) \in DOMAIN ads[op.dev].eds
           /\ conns[ads[op.dev].eds[EdKey(op.dev, uid)].droid] # Closed

\* C35: terminate_session on an id that is not in the session map and has no
\* registered event channel raises nothing, calls no collaborator (closes
\* nothing) and leaves both maps, the connections, the held port and the
\* forward mappings unchanged; a second terminate_session of a session is such
\* a call.
C35_TerminateAbsentIsNoOp ==
    [][(op'.name = "terminate_session"
          /\ op'.arg \notin DOMAIN ads[op'.dev].sessions
          /\ EdKey(op'.dev, op'.arg) \notin DOMAIN ads[op'.dev].eds)
         => /\ exc' = "none"
            /\ log' = <<>>
            /\ ads' = ads /\ conns' = conns /\ fwd' = fwd]_vars

\* a session was terminated, and terminate_session was called on an id that
\* is not ACTIVE while another session is
C35_Witness ==
    /\ op.name = "terminate_session" /\ exc = "none" /\ log = <<>>
    /\ \E c \in 1 .. Len(conns) : conns[c] = Closed
    /\ DOMAIN ads[op.dev].sessions # {}
    /\ op.arg \notin DOMAIN ads[op.dev].sessions

====
